---- MODULE Spec2Model ----
(***************************************************************************)
(* A model of the BitEx trading micro-app: the order-book synchronizer     *)
(* (lib/orderbook.ts), the stream connection (lib/websocket.ts), the risk  *)
(* engine (lib/risk.ts) and the candle aggregator (lib/candles.ts).        *)
(*                                                                         *)
(* Numbers.  The code computes in IEEE doubles; the model computes in      *)
(* exact integers:                                                         *)
(*   - book prices are whole dollars, drawn from even values so that       *)
(*     (bid + ask) / 2 is exact; book quantities are whole units;          *)
(*   - in the risk engine a quantity is in hundredths of a BTC, a price in *)
(*     whole dollars and a cash amount in cents, so that                   *)
(*     quantity * price is the cost in cents with no rounding.             *)
(* Wire values are the decimal strings the exchange sends; parseFloat      *)
(* maps them to numbers.                                                   *)
(***************************************************************************)
EXTENDS Integers, Sequences, FiniteSets, TLC

VARIABLES
    \* OrderBookManager
    state,          \* this.state: the published OrderBookState
    lastUpdateId,   \* this.lastUpdateId: the sequence id diffs are validated against
    fetches,        \* snapshot fetches in flight (pending loadSnapshot calls)
    srvSeq,         \* the exchange's latest update id
    stateChanges,   \* onStateChange invocations made by the last handler
    lastDiff        \* what handleUpdate did with the last diff it was given

bookVars == <<state, lastUpdateId, fetches, srvSeq, stateChanges, lastDiff>>

VARIABLES
    \* WebSocketManager
    ws,                 \* this.ws: 0 is null, else the socket it refers to
    socks,              \* the WebSocket objects whose events can still reach the manager
    reconnectTimeout,   \* this.reconnectTimeout: 0 is null, else the pending timer's delay
    heartbeatInterval,  \* this.heartbeatInterval: whether a handle is held
    intervals,          \* setInterval timers running
    timeouts,           \* setTimeout timers pending
    status,             \* this.status
    notified,           \* the status last passed to onStatusChange
    scheduled,          \* the last reconnect scheduled since the attempt counter was
                        \* reset: its delay, the counter it found, the delay before it
    userDisconnected,   \* the caller's last call was disconnect()
    lastCall            \* the last call or event, the attempt counter it found and
                        \* whether it found a reconnect timer pending

wsVars == <<ws, socks, reconnectTimeout, heartbeatInterval, intervals, timeouts,
            status, notified, scheduled, userDisconnected, lastCall>>

VARIABLES
    \* RiskManager
    balances,           \* this.balances
    riskCall            \* the last call: its arguments, the balances it found,
                        \* what it returned and its onBalanceChange calls

riskVars == <<balances, riskCall>>

VARIABLES
    \* CandleAggregator
    candles,            \* this.candles: the finalized history
    currentCandle,      \* this.currentCandle: null or the open candle
    maxCandles,         \* this.maxCandles
    published,          \* the array last passed to onCandleUpdate
    candleLog           \* the calls made, the trades applied to the open candle and
                        \* every candle finalized since construction or clear()

candleVars == <<candles, currentCandle, maxCandles, published, candleLog>>

VARIABLES
    \* WebSocketManager.handleMessage
    arrived,            \* the frames the open sockets have received, in arrival order
    delivered           \* the payloads passed to onMessage, in call order

frameVars == <<arrived, delivered>>

VARIABLES
    \* useBalances
    orders,             \* the orders state: the value last given to setOrders
    renderedOrders,     \* the orders the executeOrder callback in use closes over
    fills               \* every accepted execution, newest first

orderVars == <<orders, renderedOrders, fills>>

vars == <<bookVars, wsVars, riskVars, candleVars, frameVars, orderVars>>

-----------------------------------------------------------------------------
(* Bounds of the model *)

MaxSeq == 2
MaxFetches == 2
MaxLag == 2
MaxSockets == 3
MaxOps == 3
MaxCandleOps == 4
MaxFrames == 2

-----------------------------------------------------------------------------
(* Helpers *)

\* F applied to the value of e: e is evaluated once, as an argument or a
\* local constant is in the code
ByValue(e, F(_)) == CHOOSE r \in {F(x) : x \in {e}} : TRUE

Max(a, b) == IF a >= b THEN a ELSE b

Min(a, b) == IF a <= b THEN a ELSE b

SetMin(S) == CHOOSE m \in S : \A n \in S : m <= n

RemoveAt(s, i) == SubSeq(s, 1, i - 1) \o SubSeq(s, i + 1, Len(s))

Range(s) == {s[i] : i \in DOMAIN s}

-----------------------------------------------------------------------------
(* Wire format: [priceStr, qtyStr] pairs *)

\* parseFloat on the decimal strings of the feed
parseFloat(s) ==
    CASE s = "50000.00" -> 50000
      [] s = "50000" -> 50000
      [] s = "50002.00" -> 50002
      [] s = "0.00000000" -> 0
      [] s = "1.00000000" -> 1
      [] s = "2.00000000" -> 2

\* The change lists (b: bids, a: asks) a diff may carry
DiffBodies ==
    { [b |-> <<>>, a |-> <<>>],
      [b |-> << <<"50000.00", "1.00000000">> >>,
       a |-> << <<"50002.00", "2.00000000">> >>],
      [b |-> << <<"50000.00", "0.00000000">> >>,
       a |-> << <<"50000.00", "1.00000000">> >>],
      [b |-> << <<"50002.00", "0.00000000">>, <<"50000", "2.00000000">> >>,
       a |-> << <<"50002.00", "0.00000000">> >>] }

\* The bodies a snapshot response may carry (lastUpdateId is added by the server)
SnapshotBodies ==
    { [bids |-> <<>>, asks |-> <<>>],
      [bids |-> << <<"50000.00", "1.00000000">> >>,
       asks |-> << <<"50002.00", "1.00000000">> >>],
      [bids |-> << <<"50000.00", "1.00000000">>, <<"50002.00", "2.00000000">> >>,
       asks |-> << <<"50002.00", "1.00000000">>, <<"50000.00", "2.00000000">> >>],
      [bids |-> << <<"50002.00", "0.00000000">>, <<"50000", "2.00000000">> >>,
       asks |-> << <<"50002.00", "2.00000000">> >>] }

\* OrderBookUpdate: U first update id, u final update id, b bids, a asks
Updates ==
    { [U |-> f, u |-> l, b |-> body.b, a |-> body.a] :
        f \in 1..MaxSeq, l \in 1..MaxSeq, body \in DiffBodies }

-----------------------------------------------------------------------------
(* OrderBookManager *)

parseLevels(levels) ==
    [i \in DOMAIN levels |->
        [price |-> parseFloat(levels[i][1]), quantity |-> parseFloat(levels[i][2])]]

\* The ascending comparator used for both sides
Before_Ascending(a, b, side) == a.price - b.price < 0

\* The comparator of Array.prototype.sort is negative: a goes before b
Before(a, b, side) ==
    IF side = "bids" THEN b.price - a.price < 0 ELSE a.price - b.price < 0

RECURSIVE Insert(_, _, _)
Insert(x, s, side) ==
    IF s = <<>> THEN <<x>>
    ELSE IF Before(x, Head(s), side) THEN <<x>> \o s
         ELSE <<Head(s)>> \o Insert(x, Tail(s), side)

\* Array.prototype.sort (stable) with the side's comparator
RECURSIVE Sort(_, _)
Sort(s, side) ==
    IF s = <<>> THEN <<>>
    ELSE ByValue(Sort(SubSeq(s, 1, Len(s) - 1), side),
                 LAMBDA sorted : Insert(s[Len(s)], sorted, side))

\* Map.prototype.set on a map kept as its entries in insertion order
MapSet(m, k, v) ==
    IF \E i \in DOMAIN m : m[i].price = k
    THEN [i \in DOMAIN m |-> IF m[i].price = k THEN [price |-> k, quantity |-> v] ELSE m[i]]
    ELSE Append(m, [price |-> k, quantity |-> v])

\* Map.prototype.delete
MapDelete(m, k) == SelectSeq(m, LAMBDA e : e.price # k)

RECURSIVE AddExisting(_, _)
AddExisting(m, existing) ==
    IF existing = <<>> THEN m
    ELSE LET level == Head(existing)
         IN  ByValue(IF level.quantity > 0
                     THEN MapSet(m, level.price, level.quantity)
                     ELSE m,
                     LAMBDA levelMap : AddExisting(levelMap, Tail(existing)))

RECURSIVE ApplyUpdates(_, _)
ApplyUpdates(m, updates) ==
    IF updates = <<>> THEN m
    ELSE LET level == Head(updates)
         IN  ByValue(IF level.quantity = 0
                     THEN MapDelete(m, level.price)
                     ELSE MapSet(m, level.price, level.quantity),
                     LAMBDA levelMap : ApplyUpdates(levelMap, Tail(updates)))

\* mergeLevels with the quantity-0 case lost: a zero quantity is stored like any other
mergeLevels_KeepZero(existing, updates, side) ==
    LET RECURSIVE SetAll(_, _)
        SetAll(m, us) ==
            IF us = <<>> THEN m
            ELSE SetAll(MapSet(m, Head(us).price, Head(us).quantity), Tail(us))
    IN  ByValue(SetAll(AddExisting(<<>>, existing), updates),
                LAMBDA levelMap : Sort(levelMap, side))

mergeLevels(existing, updates, side) ==
    ByValue(ApplyUpdates(AddExisting(<<>>, existing), updates),
            LAMBDA levelMap : Sort(levelMap, side))

RECURSIVE SumQty(_)
SumQty(levels) ==
    IF levels = <<>> THEN 0 ELSE Head(levels).quantity + SumQty(Tail(levels))

RECURSIVE SumValue(_)
SumValue(levels) ==
    IF levels = <<>> THEN 0
    ELSE Head(levels).price * Head(levels).quantity + SumValue(Tail(levels))

\* Each level given its own quantity as cumulative
calculateCumulative_Own(levels) ==
    [i \in DOMAIN levels |->
        [price |-> levels[i].price,
         quantity |-> levels[i].quantity,
         cumulative |-> levels[i].quantity]]

calculateCumulative(levels) ==
    [i \in DOMAIN levels |->
        [price |-> levels[i].price,
         quantity |-> levels[i].quantity,
         cumulative |-> SumQty(SubSeq(levels, 1, i))]]

VwapLevels == 20

\* A quotient totalValue / totalVolume, kept exact as numerator and denominator
Ratio(n, d) == [num |-> n, den |-> d]

calculateMetrics(st) ==
    IF st.bids = <<>> \/ st.asks = <<>>
    THEN [spread |-> 0, midPrice |-> 0, vwap |-> Ratio(0, 1)]
    ELSE LET bestBid == st.bids[1]
             bestAsk == st.asks[1]
             top == SubSeq(st.bids, 1, Min(VwapLevels, Len(st.bids)))
                    \o SubSeq(st.asks, 1, Min(VwapLevels, Len(st.asks)))
             totalVolume == SumQty(top)
             totalValue == SumValue(top)
         IN  [spread |-> bestAsk.price - bestBid.price,
              midPrice |-> (bestBid.price + bestAsk.price) \div 2,
              vwap |-> IF totalVolume > 0 THEN Ratio(totalValue, totalVolume)
                       ELSE Ratio(0, 1)]

\* { ...a, ...b }
Spread(a, b) ==
    [f \in DOMAIN a \cup DOMAIN b |-> IF f \in DOMAIN b THEN b[f] ELSE a[f]]

\* updateState without the recalculation of the metrics
updateState_StaleMetrics(st, updates) == Spread(st, updates)

\* updateState: the new this.state (the caller counts the onStateChange call)
updateState(st, updates) ==
    ByValue(Spread(st, updates),
            LAMBDA merged : Spread(merged, calculateMetrics(merged)))

\* The part of loadSnapshot after this.lastUpdateId = data.lastUpdateId
applySnapshot(st, data) ==
    ByValue([bids |-> Sort(parseLevels(data.bids), "bids"),
             asks |-> Sort(parseLevels(data.asks), "asks")],
            LAMBDA sorted :
                updateState(st, [bids |-> calculateCumulative(sorted.bids),
                                 asks |-> calculateCumulative(sorted.asks),
                                 lastUpdateId |-> data.lastUpdateId]))

\* The sequence check accepting any diff that starts after the last id (gaps pass)
SequenceOk_Gaps(update, last) == update.U >= last + 1

SequenceOk(update, last) == update.U = last + 1

\* The accepting branch of handleUpdate, after this.lastUpdateId = update.u
applyUpdate(st, update) ==
    ByValue([bids |-> mergeLevels(st.bids, parseLevels(update.b), "bids"),
             asks |-> mergeLevels(st.asks, parseLevels(update.a), "asks")],
            LAMBDA merged :
                updateState(Spread(st, merged),
                            [bids |-> calculateCumulative(merged.bids),
                             asks |-> calculateCumulative(merged.asks),
                             lastUpdateId |-> update.u]))

InitState ==
    [bids |-> <<>>, asks |-> <<>>, spread |-> 0, midPrice |-> 0,
     vwap |-> Ratio(0, 1), lastUpdateId |-> 0, isConnected |-> FALSE, latency |-> 0]

InitBook ==
    /\ state = InitState
    /\ lastUpdateId = 0
    /\ fetches = <<>>
    /\ srvSeq = 0
    /\ stateChanges = 0
    /\ lastDiff = "none"

\* What a call leaves behind: the manager's fields, the snapshot fetches in
\* flight and the number of onStateChange calls it made
After(st, last, fs, n) ==
    [state |-> st, lastUpdateId |-> last, fetches |-> fs, stateChanges |-> n]

Commit(after) ==
    /\ UNCHANGED <<wsVars, riskVars, candleVars, frameVars, orderVars>>
    /\ \E done \in {after} :
         /\ stateChanges' = done.stateChanges
         /\ fetches' = done.fetches
         /\ lastUpdateId' = done.lastUpdateId
         /\ state' = done.state

\* loadSnapshot up to its first await: the request is sent; the server answers
\* with its book as of the request
loadSnapshot == After(state, lastUpdateId, Append(fetches, [sid |-> srvSeq]), 0)

\* loadSnapshot after its awaits, for the i-th fetch in flight
snapshotLoaded(i, body) ==
    LET data == Spread(body, [lastUpdateId |-> fetches[i].sid])
    IN  After(applySnapshot(state, data), data.lastUpdateId, RemoveAt(fetches, i), 1)

\* fetch rejects: loadSnapshot rethrows, nothing is assigned
snapshotFailed(i) == After(state, lastUpdateId, RemoveAt(fetches, i), 0)

\* The response is read but its levels cannot be parsed (bids or asks is not an
\* array of pairs): this.lastUpdateId is already assigned when parseLevels throws
snapshotMalformed(i) == After(state, fetches[i].sid, RemoveAt(fetches, i), 0)

\* handleUpdate that drops a mismatching diff without reloading the snapshot
handleUpdate_NoReload(update) ==
    IF ~SequenceOk(update, lastUpdateId)
    THEN After(state, lastUpdateId, fetches, 0)
    ELSE After(applyUpdate(state, update), update.u, fetches, 1)

\* handleUpdate; the fetch it starts is answered with the book as of the diff
handleUpdate(update) ==
    IF ~SequenceOk(update, lastUpdateId)
    THEN After(state, lastUpdateId,
               Append(fetches, [sid |-> Max(srvSeq, update.u)]), 0)
    ELSE After(applyUpdate(state, update), update.u, fetches, 1)

setConnectionStatus(isConnected, latency) ==
    After(updateState(state, [isConnected |-> isConnected, latency |-> latency]),
          lastUpdateId, fetches, 1)

\* An explicit loadSnapshot() call (useOrderBook's initialize)
LoadSnapshot ==
    /\ Len(fetches) < MaxFetches
    /\ UNCHANGED <<srvSeq, lastDiff>>
    /\ Commit(loadSnapshot)

\* A snapshot response arrives; responses arrive in any order
SnapshotLoaded(i, body) ==
    /\ i \in DOMAIN fetches
    /\ UNCHANGED <<srvSeq, lastDiff>>
    /\ Commit(snapshotLoaded(i, body))

SnapshotFailed(i) ==
    /\ i \in DOMAIN fetches
    /\ UNCHANGED <<srvSeq, lastDiff>>
    /\ Commit(snapshotFailed(i))

SnapshotMalformed(i) ==
    /\ i \in DOMAIN fetches
    /\ UNCHANGED <<srvSeq, lastDiff>>
    /\ Commit(snapshotMalformed(i))

\* A diff frame arrives on the stream
HandleUpdate(update) ==
    /\ update.U <= update.u
    /\ SequenceOk(update, lastUpdateId) \/ Len(fetches) < MaxFetches
    /\ srvSeq' = Max(srvSeq, update.u)
    /\ lastDiff' = IF SequenceOk(update, lastUpdateId) THEN "accepted" ELSE "mismatch"
    /\ Commit(handleUpdate(update))

SetConnectionStatus ==
    /\ UNCHANGED <<srvSeq, lastDiff>>
    /\ \E c \in BOOLEAN : Commit(setConnectionStatus(c, IF c THEN 1 ELSE 0))

\* The synchronizer under any feed (diffs in any order, with gaps and repeats)
\* and a snapshot endpoint that answers with well-formed bodies or not at all
BookStep ==
    \/ LoadSnapshot
    \/ \E i \in 1..MaxFetches, body \in SnapshotBodies : SnapshotLoaded(i, body)
    \/ \E i \in 1..MaxFetches : SnapshotFailed(i)
    \/ \E update \in Updates : HandleUpdate(update)
    \/ SetConnectionStatus

-----------------------------------------------------------------------------
(* The synchronizer under a well-behaved exchange: every diff carries the one
   update id after the previous diff's, every snapshot fetch succeeds and the
   responses arrive in request order.  The handlers only compare a diff's first
   id with lastUpdateId + 1 and copy ids, so a run is unchanged by shifting
   every id by the same amount: ids are kept relative to the smallest id in
   play, which makes the endless feed a finite graph. *)

\* The smallest id in play after a call
Base(after) ==
    SetMin({after.lastUpdateId} \cup {after.fetches[i].sid : i \in DOMAIN after.fetches})

\* Commit with every id taken relative to Base
CommitRebased(called, srv) ==
    \E after \in {called} : \E base \in {Base(after)} :
        /\ Commit(After(Spread(after.state,
                               [lastUpdateId |-> after.state.lastUpdateId - base]),
                        after.lastUpdateId - base,
                        [i \in DOMAIN after.fetches |->
                            [sid |-> after.fetches[i].sid - base]],
                        after.stateChanges))
        /\ srvSeq' = srv - base

\* The exchange publishes an update the client never receives (published
\* before the stream connected, or lost with a dropped connection); it happens
\* only while the book is in sync
ServerAdvances ==
    /\ lastDiff # "mismatch"
    /\ fetches = <<>>
    /\ srvSeq - lastUpdateId < MaxLag
    /\ srvSeq' = srvSeq + 1
    /\ UNCHANGED <<state, lastUpdateId, fetches, stateChanges, lastDiff>>
    /\ UNCHANGED <<wsVars, riskVars, candleVars, frameVars, orderVars>>

\* The stream delivers the next diff
FeedDelivers(body) ==
    LET update == [U |-> srvSeq + 1, u |-> srvSeq + 1, b |-> body.b, a |-> body.a]
    IN  /\ SequenceOk(update, lastUpdateId) \/ Len(fetches) < MaxFetches
        /\ lastDiff' = IF SequenceOk(update, lastUpdateId) THEN "accepted" ELSE "mismatch"
        /\ CommitRebased(handleUpdate(update), update.u)

\* The oldest snapshot fetch in flight is answered
FetchSucceeds(body) ==
    /\ fetches # <<>>
    /\ CommitRebased(snapshotLoaded(1, body), srvSeq)
    /\ UNCHANGED lastDiff

ResyncStep ==
    \/ ServerAdvances
    \/ \E body \in DiffBodies : FeedDelivers(body)
    \/ \E body \in SnapshotBodies : FetchSucceeds(body)

-----------------------------------------------------------------------------
(* WebSocketManager.  The transport is the browser's WebSocket: an event is a
   task that runs the handlers bound in connect(); a connection that fails
   fires its error event and its close event in one task; a socket stays able
   to call the manager's handlers after this.ws stops referring to it.  The
   URL is the fixed wss:// address of useOrderBook, for which new WebSocket
   does not throw. *)

\* createWebSocketManager's config
config ==
    [reconnectInterval |-> 1000, maxReconnectAttempts |-> 10, heartbeatInterval |-> 30000]

NormalClosure == 1000

MaxDelay == 30000

Sockets == 1..MaxSockets

\* Date.now() - this.startTime when the open event runs
Latencies == {0, 120}

\* How a connection ends: with or without an error event, and the close code
\* (1000 normal closure, 1005 no status code in the close frame, 1006 abnormal)
Closures ==
    { [failed |-> TRUE, code |-> 1006],
      [failed |-> FALSE, code |-> 1000],
      [failed |-> FALSE, code |-> 1005],
      [failed |-> FALSE, code |-> 1006] }

NoSocket == [readyState |-> "NONE", established |-> FALSE]

NoSchedule == [delay |-> 0, attempts |-> 0, prev |-> 0]

InitStatus ==
    [isConnected |-> FALSE, isReconnecting |-> FALSE, reconnectAttempts |-> 0, latency |-> 0]

InitWS ==
    /\ ws = 0
    /\ socks = [t \in Sockets |-> NoSocket]
    /\ reconnectTimeout = 0
    /\ heartbeatInterval = FALSE
    /\ intervals = 0
    /\ timeouts = 0
    /\ status = InitStatus
    /\ notified = InitStatus
    /\ scheduled = NoSchedule
    /\ userDisconnected = FALSE
    /\ lastCall = [op |-> "none", attempts |-> 0, pending |-> FALSE]

\* The manager's fields as one value
Manager ==
    [ws |-> ws, socks |-> socks, reconnectTimeout |-> reconnectTimeout,
     heartbeatInterval |-> heartbeatInterval, intervals |-> intervals,
     timeouts |-> timeouts,
     status |-> status, notified |-> notified, scheduled |-> scheduled]

CommitWS(m) ==
    /\ UNCHANGED <<bookVars, riskVars, candleVars, frameVars, orderVars>>
    /\ ws' = m.ws
    /\ socks' = m.socks
    /\ reconnectTimeout' = m.reconnectTimeout
    /\ heartbeatInterval' = m.heartbeatInterval
    /\ intervals' = m.intervals
    /\ timeouts' = m.timeouts
    /\ status' = m.status
    /\ notified' = m.notified
    /\ scheduled' = m.scheduled

\* A closed socket nothing refers to fires no more events: it is dropped
Collect(m) ==
    [m EXCEPT !.socks = [t \in Sockets |->
        IF m.socks[t].readyState = "CLOSED" /\ t # m.ws THEN NoSocket ELSE m.socks[t]]]

\* WebSocket.prototype.close
close(m, t) ==
    IF t # 0 /\ m.socks[t].readyState \in {"CONNECTING", "OPEN"}
    THEN [m EXCEPT !.socks[t].readyState = "CLOSING"]
    ELSE m

updateStatus(m, newStatus) ==
    LET merged == Spread(m.status, newStatus)
    IN  [m EXCEPT !.status = merged, !.notified = merged,
                  !.scheduled = IF "reconnectAttempts" \in DOMAIN newStatus
                                THEN NoSchedule ELSE @]

clearTimers(m) ==
    [m EXCEPT !.reconnectTimeout = 0,
              !.timeouts = IF m.reconnectTimeout # 0 THEN @ - 1 ELSE @,
              !.heartbeatInterval = FALSE,
              !.intervals = IF m.heartbeatInterval THEN @ - 1 ELSE @]

startHeartbeat(m) ==
    [m EXCEPT !.heartbeatInterval = TRUE, !.intervals = @ + 1]

\* What scheduleReconnect leaves behind once it has computed the delay
Scheduling(m, delay) ==
    LET closed == IF m.ws # 0 /\ m.socks[m.ws].readyState # "CLOSED"
                  THEN close(m, m.ws) ELSE m
    IN  [closed EXCEPT !.ws = 0, !.reconnectTimeout = delay,
                       !.timeouts = @ + 1,
                       !.scheduled = [delay |-> delay,
                                      attempts |-> m.status.reconnectAttempts,
                                      prev |-> m.scheduled.delay]]

\* scheduleReconnect without its early return
scheduleReconnect_Again(m) ==
    Scheduling(m, Min(config.reconnectInterval * 2 ^ m.status.reconnectAttempts,
                      MaxDelay))

\* scheduleReconnect with the 30 s cap lost
scheduleReconnect_Uncapped(m) ==
    IF m.reconnectTimeout # 0 THEN m
    ELSE Scheduling(m, config.reconnectInterval * 2 ^ m.status.reconnectAttempts)

scheduleReconnect(m) ==
    IF m.reconnectTimeout # 0 THEN m
    ELSE Scheduling(m, Min(config.reconnectInterval * 2 ^ m.status.reconnectAttempts,
                           MaxDelay))

\* connect() returns at once: this.ws is open or connecting
Connected(m) == m.ws # 0 /\ m.socks[m.ws].readyState \in {"OPEN", "CONNECTING"}

\* The places a new WebSocket can take; the socket this.ws referred to is
\* released by the assignment
FreeSockets(m) == {t \in Sockets : m.socks[t].readyState \in {"NONE", "CLOSED"}}

\* connect() without its early return
connect_Always(m) ==
    IF FreeSockets(m) = {} THEN m
    ELSE LET t == SetMin(FreeSockets(m))
         IN  [m EXCEPT !.ws = t,
                       !.socks[t] = [readyState |-> "CONNECTING", established |-> FALSE]]

connect(m) ==
    IF Connected(m) THEN m
    ELSE LET t == SetMin(FreeSockets(m))
         IN  [m EXCEPT !.ws = t,
                       !.socks[t] = [readyState |-> "CONNECTING", established |-> FALSE]]

disconnect(m) ==
    LET cleared == clearTimers(m)
        closed == IF cleared.ws # 0
                  THEN [close(cleared, cleared.ws) EXCEPT !.ws = 0]
                  ELSE cleared
    IN  updateStatus(closed, [isConnected |-> FALSE, isReconnecting |-> FALSE,
                              reconnectAttempts |-> 0, latency |-> 0])

handleOpen(m, latency) ==
    startHeartbeat(updateStatus(m, [isConnected |-> TRUE, isReconnecting |-> FALSE,
                                    lastConnected |-> "now", reconnectAttempts |-> 0,
                                    latency |-> latency]))

\* handleClose that still schedules a reconnect when the counter is at the ceiling
handleClose_AtCeiling(m, code) ==
    LET reported == updateStatus(clearTimers(m),
                                 [isConnected |-> FALSE, isReconnecting |-> TRUE,
                                  latency |-> 0])
    IN  IF code # NormalClosure
           /\ reported.status.reconnectAttempts <= config.maxReconnectAttempts
        THEN scheduleReconnect(reported)
        ELSE updateStatus(reported, [isConnected |-> FALSE, isReconnecting |-> FALSE,
                                     reconnectAttempts |-> 0, latency |-> 0])

handleClose(m, code) ==
    LET reported == updateStatus(clearTimers(m),
                                 [isConnected |-> FALSE, isReconnecting |-> TRUE,
                                  latency |-> 0])
    IN  IF code # NormalClosure
           /\ reported.status.reconnectAttempts < config.maxReconnectAttempts
        THEN scheduleReconnect(reported)
        ELSE updateStatus(reported, [isConnected |-> FALSE, isReconnecting |-> FALSE,
                                     reconnectAttempts |-> 0, latency |-> 0])

handleError(m) ==
    LET reported == updateStatus(m, [isConnected |-> FALSE, isReconnecting |-> TRUE,
                                     latency |-> 0])
    IN  scheduleReconnect([close(reported, reported.ws) EXCEPT !.ws = 0])

\* The timer callback without its connect() call
reconnectTimer_NoConnect(m) ==
    [m EXCEPT !.reconnectTimeout = 0, !.timeouts = @ - 1,
              !.status.reconnectAttempts = @ + 1]

\* The callback scheduleReconnect hands to setTimeout
reconnectTimer(m) ==
    connect([m EXCEPT !.reconnectTimeout = 0, !.timeouts = @ - 1,
                      !.status.reconnectAttempts = @ + 1])

Called(op) ==
    lastCall' = [op |-> op, attempts |-> status.reconnectAttempts,
                 pending |-> reconnectTimeout # 0]

\* The caller's connect(): useOrderBook's initialize and its reconnect callback
Connect ==
    /\ Connected(Manager) \/ FreeSockets(Manager) # {}
    /\ CommitWS(Collect(connect(Manager)))
    /\ userDisconnected' = FALSE
    /\ Called("connect")

\* The caller's disconnect(): useOrderBook's cleanup and its disconnect callback
Disconnect ==
    /\ CommitWS(Collect(disconnect(Manager)))
    /\ userDisconnected' = TRUE
    /\ Called("disconnect")

\* The open event of socket t
SocketOpens(t, latency) ==
    /\ socks[t].readyState = "CONNECTING"
    /\ CommitWS(handleOpen([Manager EXCEPT !.socks[t] =
                               [readyState |-> "OPEN", established |-> TRUE]],
                           latency))
    /\ Called("open")
    /\ UNCHANGED userDisconnected

\* Socket t's connection ends: its error event, if it failed, and its close
\* event run in one task.  A connection that was never established ends as
\* a failure
TransportClosed(t, closure) ==
    /\ socks[t].readyState \in {"CONNECTING", "OPEN", "CLOSING"}
    /\ ~socks[t].established => closure.failed
    /\ LET ended == [Manager EXCEPT !.socks[t].readyState = "CLOSED"]
           errored == IF closure.failed THEN handleError(ended) ELSE ended
       IN  CommitWS(Collect(handleClose(errored, closure.code)))
    /\ Called("close")
    /\ UNCHANGED userDisconnected

\* The reconnect timer fires
ReconnectTimerFires ==
    /\ timeouts > 0
    /\ Connected(Manager) \/ FreeSockets(Manager) # {}
    /\ CommitWS(Collect(reconnectTimer(Manager)))
    /\ Called("timer")
    /\ UNCHANGED userDisconnected

WSStep ==
    \/ Connect
    \/ Disconnect
    \/ \E t \in Sockets, latency \in Latencies : SocketOpens(t, latency)
    \/ \E t \in Sockets, closure \in Closures : TransportClosed(t, closure)
    \/ ReconnectTimerFires

\* The text frames a socket may receive: two diffs and a truncated frame
Frames == {"{\"u\":7}", "{\"u\":8}", "{\"u\":"}

SyntaxError == [error |-> "SyntaxError"]

\* JSON.parse: the payload, or SyntaxError when it throws
JSONparse(text) ==
    CASE text = "{\"u\":7}" -> [u |-> 7]
      [] text = "{\"u\":8}" -> [u |-> 8]
      [] OTHER -> SyntaxError

\* handleMessage that hands the payload to onMessage twice
handleMessage_Twice(calls, data) ==
    IF JSONparse(data) = SyntaxError THEN calls
    ELSE calls \o <<JSONparse(data), JSONparse(data)>>

\* handleMessage(event): the onMessage calls made so far, with event.data handled
handleMessage(calls, data) ==
    IF JSONparse(data) = SyntaxError THEN calls
    ELSE Append(calls, JSONparse(data))

InitFrames ==
    /\ arrived = <<>>
    /\ delivered = <<>>

\* The message event of socket t; a socket fires it only while it is open
HandleMessage(t, data) ==
    /\ socks[t].readyState = "OPEN"
    /\ Len(arrived) < MaxFrames
    /\ arrived' = Append(arrived, data)
    /\ delivered' = handleMessage(delivered, data)
    /\ UNCHANGED <<bookVars, wsVars, riskVars, candleVars, orderVars>>

FrameStep ==
    \/ WSStep
    \/ \E t \in Sockets, data \in Frames : HandleMessage(t, data)

-----------------------------------------------------------------------------
(* RiskManager.  A quantity is in hundredths of a BTC, a price in dollars, a
   cash amount in cents: quantity * price is the cost in cents. *)

Sides == {"buy", "sell"}

Quantities == {-5, 0, 5, 25, 30}

Prices == {-1, 0, 40000, 50001}

Orders == [side : Sides, quantity : Quantities]

Level(p, q) == [price |-> p, quantity |-> q]

\* The { bids, asks } a validation is given
OrderBooks ==
    { [bids |-> <<>>, asks |-> <<>>],
      [bids |-> <<>>, asks |-> <<Level(50001, 1)>>],
      [bids |-> <<Level(49999, 1)>>, asks |-> <<>>],
      [bids |-> <<Level(49999, 1), Level(49998, 2)>>,
       asks |-> <<Level(50001, 1), Level(50002, 2)>>],
      [bids |-> <<Level(40000, 1)>>, asks |-> <<Level(40002, 1)>>] }

\* resetBalances' { usd: 10000, btc: 0.25 }, also useBalances' initial balances
DefaultBalances == [usd |-> 10000 * 100, btc |-> 25]

\* The initialBalances a RiskManager may be constructed with
InitialBalances ==
    { DefaultBalances, [usd |-> 0, btc |-> 0], [usd |-> 250005, btc |-> 5] }

\* price is in thousandths of a dollar here: the callers pass estimatedPrice * 1.005
calculatePnL(order, price) ==
    LET currentValue == order.quantity * price
        cost == order.quantity * (IF order.side = "buy" THEN price ELSE price)
    IN  IF order.side = "buy" THEN currentValue - cost ELSE cost - currentValue

Rejected(error, estimatedPrice, estimatedCost) ==
    [isValid |-> FALSE, error |-> error, estimatedPrice |-> estimatedPrice,
     estimatedCost |-> estimatedCost, pnlUp |-> 0, pnlDown |-> 0]

\* validateOrder with the sell side's balance check lost
validateOrder_SellUnchecked(b, order, orderBook) ==
    IF order.quantity <= 0
    THEN Rejected("Quantity must be greater than 0", 0, 0)
    ELSE IF orderBook.bids = <<>> \/ orderBook.asks = <<>>
    THEN Rejected("No market data available", 0, 0)
    ELSE LET estimatedPrice == IF order.side = "buy" THEN orderBook.asks[1].price
                               ELSE orderBook.bids[1].price
             estimatedCost == order.quantity * estimatedPrice
         IN  IF order.side = "buy" /\ estimatedCost > b.usd
             THEN Rejected("Insufficient USD balance", estimatedPrice, estimatedCost)
             ELSE [isValid |-> TRUE, estimatedPrice |-> estimatedPrice,
                   estimatedCost |-> estimatedCost,
                   pnlUp |-> calculatePnL(order, estimatedPrice * 1005),
                   pnlDown |-> calculatePnL(order, estimatedPrice * 995)]

\* validateOrder that looks for market data before it looks at the quantity
validateOrder_BookFirst(b, order, orderBook) ==
    IF orderBook.bids = <<>> \/ orderBook.asks = <<>>
    THEN Rejected("No market data available", 0, 0)
    ELSE IF order.quantity <= 0
    THEN Rejected("Quantity must be greater than 0", 0, 0)
    ELSE LET estimatedPrice == IF order.side = "buy" THEN orderBook.asks[1].price
                               ELSE orderBook.bids[1].price
             estimatedCost == order.quantity * estimatedPrice
         IN  IF order.side = "buy" /\ estimatedCost > b.usd
             THEN Rejected("Insufficient USD balance", estimatedPrice, estimatedCost)
             ELSE IF order.side # "buy" /\ order.quantity > b.btc
             THEN Rejected("Insufficient BTC balance", estimatedPrice, estimatedCost)
             ELSE [isValid |-> TRUE, estimatedPrice |-> estimatedPrice,
                   estimatedCost |-> estimatedCost,
                   pnlUp |-> calculatePnL(order, estimatedPrice * 1005),
                   pnlDown |-> calculatePnL(order, estimatedPrice * 995)]

\* validateOrder against the balances b; the error texts stand without the
\* amounts toFixed formats into them
validateOrder(b, order, orderBook) ==
    IF order.quantity <= 0
    THEN Rejected("Quantity must be greater than 0", 0, 0)
    ELSE IF orderBook.bids = <<>> \/ orderBook.asks = <<>>
    THEN Rejected("No market data available", 0, 0)
    ELSE LET estimatedPrice == IF order.side = "buy" THEN orderBook.asks[1].price
                               ELSE orderBook.bids[1].price
             estimatedCost == order.quantity * estimatedPrice
         IN  IF order.side = "buy" /\ estimatedCost > b.usd
             THEN Rejected("Insufficient USD balance", estimatedPrice, estimatedCost)
             ELSE IF order.side # "buy" /\ order.quantity > b.btc
             THEN Rejected("Insufficient BTC balance", estimatedPrice, estimatedCost)
             ELSE [isValid |-> TRUE, estimatedPrice |-> estimatedPrice,
                   estimatedCost |-> estimatedCost,
                   pnlUp |-> calculatePnL(order, estimatedPrice * 1005),
                   pnlDown |-> calculatePnL(order, estimatedPrice * 995)]

\* What executeOrder leaves: the balances, its return value, its callback calls
Executed(b, returned, callbacks) ==
    [balances |-> b, returned |-> returned, callbacks |-> callbacks]

\* executeOrder that refuses a buy that takes all the cash
executeOrder_StrictCash(b, order, estimatedPrice) ==
    IF order.quantity <= 0 \/ estimatedPrice <= 0 THEN Executed(b, FALSE, 0)
    ELSE LET cost == order.quantity * estimatedPrice
         IN  IF order.side = "buy"
             THEN IF cost >= b.usd THEN Executed(b, FALSE, 0)
                  ELSE Executed([usd |-> b.usd - cost, btc |-> b.btc + order.quantity],
                                TRUE, 1)
             ELSE IF order.quantity > b.btc THEN Executed(b, FALSE, 0)
                  ELSE Executed([usd |-> b.usd + cost, btc |-> b.btc - order.quantity],
                                TRUE, 1)

\* executeOrder that credits the asset of a buy but takes no cash for it
executeOrder_FreeBuy(b, order, estimatedPrice) ==
    IF order.quantity <= 0 \/ estimatedPrice <= 0 THEN Executed(b, FALSE, 0)
    ELSE LET cost == order.quantity * estimatedPrice
         IN  IF order.side = "buy"
             THEN IF cost > b.usd THEN Executed(b, FALSE, 0)
                  ELSE Executed([usd |-> b.usd, btc |-> b.btc + order.quantity], TRUE, 1)
             ELSE IF order.quantity > b.btc THEN Executed(b, FALSE, 0)
                  ELSE Executed([usd |-> b.usd + cost, btc |-> b.btc - order.quantity],
                                TRUE, 1)

\* executeOrder with the checks against the balances lost
executeOrder_Unchecked(b, order, estimatedPrice) ==
    IF order.quantity <= 0 \/ estimatedPrice <= 0 THEN Executed(b, FALSE, 0)
    ELSE LET cost == order.quantity * estimatedPrice
         IN  IF order.side = "buy"
             THEN Executed([usd |-> b.usd - cost, btc |-> b.btc + order.quantity], TRUE, 1)
             ELSE Executed([usd |-> b.usd + cost, btc |-> b.btc - order.quantity], TRUE, 1)

executeOrder(b, order, estimatedPrice) ==
    IF order.quantity <= 0 \/ estimatedPrice <= 0 THEN Executed(b, FALSE, 0)
    ELSE LET cost == order.quantity * estimatedPrice
         IN  IF order.side = "buy"
             THEN IF cost > b.usd THEN Executed(b, FALSE, 0)
                  ELSE Executed([usd |-> b.usd - cost, btc |-> b.btc + order.quantity],
                                TRUE, 1)
             ELSE IF order.quantity > b.btc THEN Executed(b, FALSE, 0)
                  ELSE Executed([usd |-> b.usd + cost, btc |-> b.btc - order.quantity],
                                TRUE, 1)

resetBalances == Executed(DefaultBalances, TRUE, 1)

NoCall == [op |-> "none", calls |-> 0]

\* useBalances constructs the manager with { usd: 10000, btc: 0.25 }
InitRisk ==
    /\ balances = DefaultBalances
    /\ riskCall = NoCall

\* new RiskManager(initialBalances, onBalanceChange)
InitRiskAny ==
    /\ balances \in InitialBalances
    /\ riskCall = NoCall

ValidateOrder(order, orderBook) ==
    /\ riskCall.calls < MaxOps
    /\ riskCall' = [op |-> "validateOrder", calls |-> riskCall.calls + 1,
                    order |-> order, orderBook |-> orderBook, before |-> balances,
                    returned |-> validateOrder(balances, order, orderBook),
                    callbacks |-> 0]
    /\ UNCHANGED balances
    /\ UNCHANGED <<bookVars, wsVars, candleVars, frameVars, orderVars>>

ExecuteOrder(order, estimatedPrice) ==
    LET done == executeOrder(balances, order, estimatedPrice)
    IN  /\ riskCall.calls < MaxOps
        /\ balances' = done.balances
        /\ riskCall' = [op |-> "executeOrder", calls |-> riskCall.calls + 1,
                        order |-> order, estimatedPrice |-> estimatedPrice,
                        before |-> balances, returned |-> done.returned,
                        callbacks |-> done.callbacks]
        /\ UNCHANGED <<bookVars, wsVars, candleVars, frameVars, orderVars>>

ResetBalances ==
    /\ riskCall.calls < MaxOps
    /\ balances' = resetBalances.balances
    /\ riskCall' = [op |-> "resetBalances", calls |-> riskCall.calls + 1,
                    before |-> balances, callbacks |-> resetBalances.callbacks]
    /\ UNCHANGED <<bookVars, wsVars, candleVars, frameVars, orderVars>>

RiskStep ==
    \/ \E order \in Orders, orderBook \in OrderBooks : ValidateOrder(order, orderBook)
    \/ \E order \in Orders, estimatedPrice \in Prices : ExecuteOrder(order, estimatedPrice)
    \/ ResetBalances

\* The balances given to setBalances: those of the tests, none, and debts
NewBalances ==
    { [usd |-> 1500000, btc |-> 50], [usd |-> 0, btc |-> 0],
      [usd |-> -10000, btc |-> 0], [usd |-> 0, btc |-> -5] }

\* setBalances copies what it is given and notifies
setBalances(newBalances) == Executed(newBalances, TRUE, 1)

\* The prices given to getPortfolioValue and getPortfolioChange, in dollars
PortfolioPrices == {0, 40000, 50000}

\* In cents: the cash plus hundredths of a BTC at a price in dollars
getPortfolioValue(b, currentPrice) == b.usd + b.btc * currentPrice

\* getPortfolioChange with the percentage taken of the cash alone
getPortfolioChange_OfCash(b, initialPrice, currentPrice) ==
    LET initialValue == b.usd + b.btc * initialPrice
        currentValue == getPortfolioValue(b, currentPrice)
        change == currentValue - initialValue
    IN  [change |-> change,
         changePercent |-> IF initialValue > 0 /\ b.usd # 0
                           THEN Ratio(change * 100, b.usd) ELSE Ratio(0, 1)]

\* changePercent is (change / initialValue) * 100
getPortfolioChange(b, initialPrice, currentPrice) ==
    LET initialValue == b.usd + b.btc * initialPrice
        currentValue == getPortfolioValue(b, currentPrice)
        change == currentValue - initialValue
    IN  [change |-> change,
         changePercent |-> IF initialValue > 0
                           THEN Ratio(change * 100, initialValue) ELSE Ratio(0, 1)]

SetBalances(newBalances) ==
    /\ riskCall.calls < MaxOps
    /\ balances' = setBalances(newBalances).balances
    /\ riskCall' = [op |-> "setBalances", calls |-> riskCall.calls + 1,
                    before |-> balances,
                    callbacks |-> setBalances(newBalances).callbacks]
    /\ UNCHANGED <<bookVars, wsVars, candleVars, frameVars, orderVars>>

GetPortfolioChange(initialPrice, currentPrice) ==
    /\ riskCall.calls < MaxOps
    /\ riskCall' = [op |-> "getPortfolioChange", calls |-> riskCall.calls + 1,
                    initialPrice |-> initialPrice, currentPrice |-> currentPrice,
                    before |-> balances,
                    returned |-> getPortfolioChange(balances, initialPrice, currentPrice),
                    callbacks |-> 0]
    /\ UNCHANGED balances
    /\ UNCHANGED <<bookVars, wsVars, candleVars, frameVars, orderVars>>

\* Every public operation of the RiskManager that writes or reads the balances
RiskApiStep ==
    \/ RiskStep
    \/ \E newBalances \in NewBalances : SetBalances(newBalances)
    \/ \E initialPrice \in PortfolioPrices, currentPrice \in PortfolioPrices :
           GetPortfolioChange(initialPrice, currentPrice)

-----------------------------------------------------------------------------
(* CandleAggregator.  A timestamp is in milliseconds counted from the start of
   a minute, a price in dollars, a quantity in tenths of a BTC. *)

MinuteMs == 60000

Timestamps == {0, 5000, 60000}

TradePrices == {49900, 50000, 50100}

TradeQuantities == {5, 10}

Trades == [timestamp : Timestamps, price : TradePrices, quantity : TradeQuantities]

\* The values given to setMaxCandles
MaxCandlesValues == {0, 1, 2}

DefaultMaxCandles == 60

null == [null |-> TRUE]

\* Array.prototype.slice(start): a negative start counts from the end, and -0 is 0
slice(s, start) ==
    LET from == IF start < 0 THEN Max(Len(s) + start, 0) ELSE Min(start, Len(s))
    IN  SubSeq(s, from + 1, Len(s))

getMinuteStart(timestamp) == timestamp - (timestamp % MinuteMs)

\* A new candle stamped with the trade's own timestamp
newCandle_Untruncated(trade) ==
    [timestamp |-> trade.timestamp,
     open |-> trade.price, high |-> trade.price, low |-> trade.price,
     close |-> trade.price, volume |-> trade.quantity]

newCandle(trade) ==
    [timestamp |-> getMinuteStart(trade.timestamp),
     open |-> trade.price, high |-> trade.price, low |-> trade.price,
     close |-> trade.price, volume |-> trade.quantity]

updateCurrentCandle_LastPrice(candle, trade) ==
    [candle EXCEPT !.high = trade.price,
                   !.low = Min(candle.low, trade.price),
                   !.close = trade.price,
                   !.volume = candle.volume + trade.quantity]

updateCurrentCandle(candle, trade) ==
    [candle EXCEPT !.high = Max(candle.high, trade.price),
                   !.low = Min(candle.low, trade.price),
                   !.close = trade.price,
                   !.volume = candle.volume + trade.quantity]

\* finalizeCandle that also writes the pushed candle's close into the candle
\* finalized before it
finalizeCandle_Restated(cs, candle, max) ==
    LET restated == IF cs = <<>> THEN cs
                    ELSE [cs EXCEPT ![Len(cs)].close = candle.close]
        pushed == Append(restated, candle)
    IN  IF Len(pushed) > max THEN slice(pushed, -max) ELSE pushed

finalizeCandle_Drop(cs, candle, max) == cs

\* The history after finalizeCandle has pushed the open candle and trimmed
finalizeCandle(cs, candle, max) ==
    LET pushed == Append(cs, candle)
    IN  IF Len(pushed) > max THEN slice(pushed, -max) ELSE pushed

\* The array notifyUpdate passes to onCandleUpdate
notifyUpdate(cs, candle) == IF candle # null THEN Append(cs, candle) ELSE cs

\* getCurrentPrice that reads the finalized history alone
getCurrentPrice_Finalized ==
    IF Len(candles) > 0 THEN candles[Len(candles)].close ELSE 0

getCurrentPrice ==
    IF currentCandle # null THEN currentCandle.close
    ELSE IF Len(candles) > 0 THEN candles[Len(candles)].close
    ELSE 0

\* getPriceChange reading the array onCandleUpdate was given, open candle included
getPriceChange_WithOpen(cs) ==
    LET all == notifyUpdate(cs, currentCandle)
    IN  IF Len(all) < 2 THEN [change |-> 0, changePercent |-> Ratio(0, 1)]
        ELSE [change |-> all[Len(all)].close - all[1].open,
              changePercent |-> Ratio((all[Len(all)].close - all[1].open) * 100,
                                      all[1].open)]

\* getPriceChange over this.candles = cs; changePercent is (change / open) * 100
getPriceChange(cs) ==
    IF Len(cs) < 2 THEN [change |-> 0, changePercent |-> Ratio(0, 1)]
    ELSE LET firstCandle == cs[1]
             lastCandle == cs[Len(cs)]
             change == lastCandle.close - firstCandle.open
         IN  [change |-> change,
              changePercent |-> Ratio(change * 100, firstCandle.open)]

InitCandles ==
    /\ candles = <<>>
    /\ currentCandle = null
    /\ maxCandles = DefaultMaxCandles
    /\ published = <<>>
    /\ candleLog = [ops |-> 0, openTrades |-> <<>>, finalized |-> <<>>, lastPrice |-> 0]

Logged(openTrades, finalized) ==
    candleLog' = [candleLog EXCEPT !.ops = @ + 1, !.openTrades = openTrades,
                                   !.finalized = finalized]

\* The aggregator's fields, with the trades and candles the log remembers
Aggregator ==
    [candles |-> candles, currentCandle |-> currentCandle, maxCandles |-> maxCandles,
     published |-> published, openTrades |-> candleLog.openTrades,
     finalized |-> candleLog.finalized, lastPrice |-> candleLog.lastPrice]

\* addTrade that opens a candle only for a later minute: a late trade is
\* merged into the open candle
addTrade_LateIntoOpen(a, trade) ==
    LET opened == a.currentCandle = null
                      \/ a.currentCandle.timestamp < getMinuteStart(trade.timestamp)
        cs == IF opened /\ a.currentCandle # null
              THEN finalizeCandle(a.candles, a.currentCandle, a.maxCandles)
              ELSE a.candles
        candle == IF opened THEN newCandle(trade)
                  ELSE updateCurrentCandle(a.currentCandle, trade)
    IN  [a EXCEPT !.candles = cs,
                  !.currentCandle = candle,
                  !.published = notifyUpdate(cs, candle),
                  !.openTrades = IF opened THEN <<trade>> ELSE Append(@, trade),
                  !.lastPrice = trade.price,
                  !.finalized = IF opened /\ a.currentCandle # null
                                THEN Append(@, a.currentCandle) ELSE @]

\* The aggregator a after addTrade(trade)
addTrade(a, trade) ==
    LET opened == a.currentCandle = null
                      \/ a.currentCandle.timestamp # getMinuteStart(trade.timestamp)
        cs == IF opened /\ a.currentCandle # null
              THEN finalizeCandle(a.candles, a.currentCandle, a.maxCandles)
              ELSE a.candles
        candle == IF opened THEN newCandle(trade)
                  ELSE updateCurrentCandle(a.currentCandle, trade)
    IN  [a EXCEPT !.candles = cs,
                  !.currentCandle = candle,
                  !.published = notifyUpdate(cs, candle),
                  !.openTrades = IF opened THEN <<trade>> ELSE Append(@, trade),
                  !.lastPrice = trade.price,
                  !.finalized = IF opened /\ a.currentCandle # null
                                THEN Append(@, a.currentCandle) ELSE @]

\* trades.forEach(trade => this.addTrade(trade))
RECURSIVE addTrades(_, _)
addTrades(a, trades) ==
    IF trades = <<>> THEN a ELSE addTrades(addTrade(a, Head(trades)), Tail(trades))

\* The array given to addTrades: a trade in each of two minutes
TradeBatches ==
    {<<[timestamp |-> 0, price |-> 50000, quantity |-> 10],
       [timestamp |-> 60000, price |-> 50100, quantity |-> 5]>>}

CommitCandles(a) ==
    /\ candles' = a.candles
    /\ currentCandle' = a.currentCandle
    /\ published' = a.published
    /\ candleLog' = [ops |-> candleLog.ops + 1, openTrades |-> a.openTrades,
                     finalized |-> a.finalized, lastPrice |-> a.lastPrice]

AddTrade(trade) ==
    /\ candleLog.ops < MaxCandleOps
    /\ \E done \in {addTrade(Aggregator, trade)} : CommitCandles(done)
    /\ UNCHANGED maxCandles
    /\ UNCHANGED <<bookVars, wsVars, riskVars, frameVars, orderVars>>

AddTrades(trades) ==
    /\ candleLog.ops < MaxCandleOps
    /\ \E done \in {addTrades(Aggregator, trades)} : CommitCandles(done)
    /\ UNCHANGED maxCandles
    /\ UNCHANGED <<bookVars, wsVars, riskVars, frameVars, orderVars>>

ForceFinalizeCurrentCandle ==
    /\ candleLog.ops < MaxCandleOps
    /\ IF currentCandle # null
       THEN /\ candles' = finalizeCandle(candles, currentCandle, maxCandles)
            /\ currentCandle' = null
            /\ published' = notifyUpdate(candles', currentCandle')
            /\ Logged(<<>>, Append(candleLog.finalized, currentCandle))
       ELSE /\ UNCHANGED <<candles, currentCandle, published>>
            /\ Logged(candleLog.openTrades, candleLog.finalized)
    /\ UNCHANGED maxCandles
    /\ UNCHANGED <<bookVars, wsVars, riskVars, frameVars, orderVars>>

Clear ==
    /\ candleLog.ops < MaxCandleOps
    /\ candles' = <<>>
    /\ currentCandle' = null
    /\ published' = notifyUpdate(candles', currentCandle')
    /\ candleLog' = [ops |-> candleLog.ops + 1, openTrades |-> <<>>,
                     finalized |-> <<>>, lastPrice |-> 0]
    /\ UNCHANGED maxCandles
    /\ UNCHANGED <<bookVars, wsVars, riskVars, frameVars, orderVars>>

SetMaxCandles(max) ==
    /\ candleLog.ops < MaxCandleOps
    /\ maxCandles' = max
    /\ IF Len(candles) > max
       THEN /\ candles' = slice(candles, -max)
            /\ published' = notifyUpdate(candles', currentCandle)
       ELSE UNCHANGED <<candles, published>>
    /\ Logged(candleLog.openTrades, candleLog.finalized)
    /\ UNCHANGED currentCandle
    /\ UNCHANGED <<bookVars, wsVars, riskVars, frameVars, orderVars>>

CandleStep ==
    \/ \E trade \in Trades : AddTrade(trade)
    \/ \E trades \in TradeBatches : AddTrades(trades)
    \/ ForceFinalizeCurrentCandle
    \/ Clear
    \/ \E max \in MaxCandlesValues : SetMaxCandles(max)

\* The timestamp of the trade applied last, 0 before the first trade
LastTradeTimestamp ==
    IF candleLog.openTrades = <<>> THEN 0
    ELSE candleLog.openTrades[Len(candleLog.openTrades)].timestamp

\* A feed that delivers its trades in timestamp order calls addTrade
AddTradeInOrder(trade) ==
    /\ LastTradeTimestamp <= trade.timestamp
    /\ AddTrade(trade)

\* A feed that delivers its trades in timestamp order calls addTrades
AddTradesInOrder(trades) ==
    /\ LastTradeTimestamp <= Head(trades).timestamp
    /\ \A i \in 1..(Len(trades) - 1) : trades[i].timestamp <= trades[i + 1].timestamp
    /\ AddTrades(trades)

-----------------------------------------------------------------------------
(* useBalances: the executed-order log kept beside the RiskManager *)

OrdersCap == 500

\* Array.prototype.slice(0, end)
sliceTo(s, end) == SubSeq(s, 1, Min(end, Len(s)))

\* The record executeOrder logs; the id stands for Date.now() and the random
\* suffix, which differ from fill to fill
ExecutedOrder(id, order, estimatedPrice) ==
    [id |-> id, side |-> order.side, quantity |-> order.quantity,
     price |-> estimatedPrice, cost |-> order.quantity * estimatedPrice]

InitOrders ==
    /\ orders = <<>>
    /\ renderedOrders = <<>>
    /\ fills = <<>>

\* persistOrders([fill, ...orders].slice(0, 500)), with the orders the
\* callback closes over
persistOrders(closedOver, fill) == sliceTo(<<fill>> \o closedOver, OrdersCap)

\* useBalances' executeOrder, as the callback of the last render
UseBalancesExecuteOrder(order, estimatedPrice) ==
    LET done == executeOrder(balances, order, estimatedPrice)
        fill == ExecutedOrder(Len(fills) + 1, order, estimatedPrice)
    IN  /\ riskCall.calls < MaxOps
        /\ balances' = done.balances
        /\ riskCall' = [op |-> "executeOrder", calls |-> riskCall.calls + 1,
                        order |-> order, estimatedPrice |-> estimatedPrice,
                        before |-> balances, returned |-> done.returned,
                        callbacks |-> done.callbacks]
        /\ IF done.returned
           THEN /\ orders' = persistOrders(renderedOrders, fill)
                /\ fills' = <<fill>> \o fills
           ELSE UNCHANGED <<orders, fills>>
        /\ UNCHANGED renderedOrders
        /\ UNCHANGED <<bookVars, wsVars, candleVars, frameVars>>

\* The component renders again: useCallback makes a callback over the new orders
Render ==
    /\ renderedOrders # orders
    /\ renderedOrders' = orders
    /\ UNCHANGED <<orders, fills>>
    /\ UNCHANGED <<bookVars, wsVars, riskVars, candleVars, frameVars>>

-----------------------------------------------------------------------------
(* Claims about the order-book synchronizer *)

\* The (price, quantity) pairs of a side
LevelPairs(levels) == {<<levels[i].price, levels[i].quantity>> : i \in DOMAIN levels}

\* A change list has taken effect on a side: a price sent with quantity 0 is
\* absent, a price sent with another quantity is there once, with that quantity
ChangesApplied(changes, levels) ==
    \A c \in Range(changes) :
        LET p == parseFloat(c[1])
            q == parseFloat(c[2])
            at == {i \in DOMAIN levels : levels[i].price = p}
        IN  IF q = 0 THEN at = {}
            ELSE Cardinality(at) = 1 /\ \A i \in at : levels[i].quantity = q

DiffApplied(update) ==
    /\ lastUpdateId = update.u
    /\ state.lastUpdateId = update.u
    /\ ChangesApplied(update.b, state.bids)
    /\ ChangesApplied(update.a, state.asks)

\* C1: a diff whose first update id is lastUpdateId + 1 is applied: afterwards
\* the sequence id is the diff's final update id, every price sent with
\* quantity 0 is absent from its side and every price sent with a non-zero
\* quantity is present with exactly that quantity.
C1_ValidDiffApplied ==
    [][\A update \in Updates :
          (update.U = lastUpdateId + 1 /\ HandleUpdate(update)) => DiffApplied(update)']_vars

\* An accepted diff has removed the 50002 bid of the snapshot and set 50000 to 2
C1_Witness ==
    /\ lastDiff = "accepted"
    /\ lastUpdateId = 2
    /\ LevelPairs(state.bids) = {<<50000, 2>>}
    /\ state.asks # <<>>

\* C2: handling a diff whose first update id is not lastUpdateId + 1 merges
\* nothing: bids, asks, the sequence id and the metrics (the whole published
\* state) stay as they were and no state is published; only a snapshot fetch
\* is started, whose completion is what changes the state.
C2_MismatchHoldsState ==
    [][\A update \in Updates :
          (update.U # lastUpdateId + 1 /\ HandleUpdate(update))
              => /\ state' = state
                 /\ lastUpdateId' = lastUpdateId
                 /\ stateChanges' = 0]_vars

\* A diff carrying changes was rejected over a non-empty book, its fetch is pending
C2_Witness ==
    /\ lastDiff = "mismatch"
    /\ state.bids # <<>>
    /\ state.asks # <<>>
    /\ fetches # <<>>

\* C3 as stated: on a mismatch the local state is discarded (the sides are
\* emptied) and exactly one snapshot fetch is started.
C3_DiscardsAndRefetches ==
    [][\A update \in Updates :
          (update.U # lastUpdateId + 1 /\ HandleUpdate(update))
              => /\ state'.bids = <<>>
                 /\ state'.asks = <<>>
                 /\ Len(fetches') = Len(fetches) + 1]_vars

\* C3 amended: each mismatch starts exactly one snapshot fetch and keeps the
\* sides as they are; the local levels are discarded only when a snapshot
\* load completes (a fetch leaves the flight and a state is published), which
\* replaces both sides by the snapshot's levels and the sequence id by the
\* snapshot's.
C3_RefetchOncePerMismatch ==
    [][/\ \A update \in Updates :
            (update.U # lastUpdateId + 1 /\ HandleUpdate(update))
                => /\ Len(fetches') = Len(fetches) + 1
                   /\ state'.bids = state.bids
                   /\ state'.asks = state.asks
       /\ (Len(fetches') < Len(fetches) /\ stateChanges' = 1)
            => \E i \in DOMAIN fetches, body \in SnapshotBodies :
                   /\ lastUpdateId' = fetches[i].sid
                   /\ LevelPairs(state'.bids) = LevelPairs(parseLevels(body.bids))
                   /\ LevelPairs(state'.asks) = LevelPairs(parseLevels(body.asks))]_vars

\* A mismatch over a book in place, with two fetches in flight
C3_Witness ==
    /\ lastDiff = "mismatch"
    /\ Len(fetches) = 2
    /\ state.bids # <<>>

\* C4: lastUpdateId never decreases, whatever the interleaving of accepted
\* diffs, rejected diffs and completions of snapshot loads.
C4_SequenceNeverDecreases ==
    [][lastUpdateId' >= lastUpdateId]_vars

\* C5: after a sequence mismatch, with a feed that keeps delivering consecutive
\* diffs and snapshot fetches that all succeed, a diff is eventually accepted
\* again.
C5_ResyncSelfHeals == (lastDiff = "mismatch") ~> (lastDiff = "accepted")

-----------------------------------------------------------------------------
(* Claims about the stream connection *)

\* C6: after disconnect() returns, until the caller calls connect() again, no
\* reconnect timer and no heartbeat timer is pending and the manager starts no
\* connection, even when the close event of the socket disconnect() closed
\* is delivered afterwards.
C6_DisconnectIsFinal ==
    userDisconnected =>
        /\ reconnectTimeout = 0
        /\ ~heartbeatInterval
        /\ intervals = 0
        /\ ws = 0

\* C7: the attempt counter never exceeds maxReconnectAttempts; no reconnect is
\* pending with the counter at the ceiling; and the close of a connection that
\* finds the counter at the ceiling schedules nothing and leaves the status
\* reported to the caller not connected and not reconnecting.
C7_ReconnectBounded ==
    /\ status.reconnectAttempts <= config.maxReconnectAttempts
    /\ reconnectTimeout # 0 => status.reconnectAttempts < config.maxReconnectAttempts
    /\ (lastCall.op = "close" /\ lastCall.attempts >= config.maxReconnectAttempts)
           => /\ reconnectTimeout = 0
              /\ ~notified.isConnected
              /\ ~notified.isReconnecting

\* The last of ten attempts has failed, with no open since the first connect
C7_Witness ==
    /\ lastCall.op = "close"
    /\ lastCall.attempts = config.maxReconnectAttempts
    /\ "lastConnected" \notin DOMAIN status
    /\ ~userDisconnected

-----------------------------------------------------------------------------
(* Claims about the risk engine *)

\* C8: executeOrder is all-or-nothing.  Either it returns true, has called
\* onBalanceChange once and has moved both balances (buy: cash down by
\* quantity * price, asset up by quantity; sell: the reverse), or it returns
\* false, has made no call and has left both balances as they were.
C8_ExecuteAllOrNothing ==
    riskCall.op = "executeOrder" =>
        LET order == riskCall.order
            cost == order.quantity * riskCall.estimatedPrice
            before == riskCall.before
        IN  \/ /\ riskCall.returned
               /\ riskCall.callbacks = 1
               /\ balances.usd # before.usd
               /\ balances.btc # before.btc
               /\ order.side = "buy" =>
                      /\ balances.usd = before.usd - cost
                      /\ balances.btc = before.btc + order.quantity
               /\ order.side = "sell" =>
                      /\ balances.usd = before.usd + cost
                      /\ balances.btc = before.btc - order.quantity
            \/ /\ ~riskCall.returned
               /\ riskCall.callbacks = 0
               /\ balances = before

\* A buy was filled: 0.05 BTC at 50001 for 2500.05 dollars
C8_Witness ==
    /\ riskCall.op = "executeOrder"
    /\ riskCall.returned
    /\ riskCall.order = [side |-> "buy", quantity |-> 5]
    /\ riskCall.before = DefaultBalances
    /\ balances = [usd |-> 1000000 - 250005, btc |-> 30]

\* C9: from non-negative balances, whatever executeOrder and resetBalances
\* calls are made, cash >= 0 and asset >= 0.
C9_BalancesNonNegative ==
    /\ balances.usd >= 0
    /\ balances.btc >= 0

\* A buy was filled that spent the cash to the last cent
C9_Witness ==
    /\ riskCall.op = "executeOrder"
    /\ riskCall.returned
    /\ riskCall.order.side = "buy"
    /\ balances = [usd |-> 0, btc |-> 10]

\* C10: validateOrder returns isValid = false when quantity <= 0, when a buy's
\* cost at the best ask exceeds the cash balance and when a sell's quantity
\* exceeds the asset balance; it returns isValid = true for a positive
\* quantity against a two-sided book when neither limit is exceeded.
C10_ValidateOrder ==
    riskCall.op = "validateOrder" =>
        LET order == riskCall.order
            book == riskCall.orderBook
            overCash == /\ order.side = "buy"
                        /\ book.asks # <<>>
                        /\ order.quantity * book.asks[1].price > balances.usd
            overAsset == order.side = "sell" /\ order.quantity > balances.btc
        IN  /\ order.quantity <= 0 => ~riskCall.returned.isValid
            /\ overCash => ~riskCall.returned.isValid
            /\ overAsset => ~riskCall.returned.isValid
            /\ (/\ order.quantity > 0
                /\ book.bids # <<>>
                /\ book.asks # <<>>
                /\ ~overCash
                /\ ~overAsset) => riskCall.returned.isValid

\* A sell of 0.25 BTC, all there is, was found valid at the best bid
C10_Witness ==
    /\ riskCall.op = "validateOrder"
    /\ riskCall.order = [side |-> "sell", quantity |-> 25]
    /\ balances.btc = 25
    /\ riskCall.returned.isValid
    /\ riskCall.returned.estimatedPrice = 49999

-----------------------------------------------------------------------------
(* Claims about the candle aggregator *)

RECURSIVE SumQuantities(_)
SumQuantities(trades) ==
    IF trades = <<>> THEN 0 ELSE Head(trades).quantity + SumQuantities(Tail(trades))

SameBucket(trade) ==
    currentCandle # null /\ currentCandle.timestamp = getMinuteStart(trade.timestamp)

OtherBucket(trade) ==
    currentCandle # null /\ currentCandle.timestamp # getMinuteStart(trade.timestamp)

\* C11: a trade in the open candle's bucket leaves open (and the bucket)
\* unchanged, never decreases high, never increases low, sets close to the
\* trade's price, and volume stays the sum of the quantities of the trades
\* applied to the candle since it was opened; the history is not touched.
C11_SameBucketUpdate ==
    [][\A trade \in Trades :
         (SameBucket(trade) /\ AddTrade(trade)) =>
            /\ currentCandle'.timestamp = currentCandle.timestamp
            /\ currentCandle'.open = currentCandle.open
            /\ currentCandle'.high >= currentCandle.high
            /\ currentCandle'.high >= trade.price
            /\ currentCandle'.low <= currentCandle.low
            /\ currentCandle'.low <= trade.price
            /\ currentCandle'.close = trade.price
            /\ candleLog'.openTrades = Append(candleLog.openTrades, trade)
            /\ currentCandle'.volume = SumQuantities(candleLog'.openTrades)
            /\ candles' = candles]_vars

\* Three trades in one bucket: the second raised high, the third lowered low
C11_Witness ==
    /\ currentCandle # null
    /\ Len(candleLog.openTrades) = 3
    /\ currentCandle.open = 50000
    /\ currentCandle.high = 50100
    /\ currentCandle.low = 49900
    /\ currentCandle.close = 49900
    /\ currentCandle.volume = 25

\* C12: a trade for another bucket than the open candle's appends exactly one
\* candle to the history, equal to the open candle as it was (older candles
\* keep their order, the oldest may be trimmed), and opens exactly one candle
\* with open = high = low = close = the trade's price and volume = its quantity.
C12_BucketChangeFinalizesOne ==
    [][\A trade \in Trades :
         (OtherBucket(trade) /\ AddTrade(trade)) =>
            /\ \E k \in 0..Len(candles) :
                 candles' = SubSeq(Append(candles, currentCandle), k + 1, Len(candles) + 1)
            /\ candleLog'.finalized = Append(candleLog.finalized, currentCandle)
            /\ currentCandle' = [timestamp |-> getMinuteStart(trade.timestamp),
                                 open |-> trade.price, high |-> trade.price,
                                 low |-> trade.price, close |-> trade.price,
                                 volume |-> trade.quantity]
            /\ published' = Append(candles', currentCandle')]_vars

\* A two-trade candle was finalized with its close, and the next bucket is open
C12_Witness ==
    /\ Len(candles) = 1
    /\ candles[1] = [timestamp |-> 0, open |-> 50000, high |-> 50100,
                     low |-> 50000, close |-> 50100, volume |-> 15]
    /\ currentCandle # null
    /\ currentCandle.timestamp = MinuteMs
    /\ currentCandle.open = 49900
    /\ Len(candleLog.openTrades) = 1

\* C13: for every maxCandles (0 included) the history holds at most maxCandles
\* candles, and they are the most recently finalized ones, in their order.
C13_HistoryCapped ==
    /\ Len(candles) <= maxCandles
    /\ \E k \in 0..Len(candleLog.finalized) :
         candles = SubSeq(candleLog.finalized, k + 1, Len(candleLog.finalized))

-----------------------------------------------------------------------------
(* Claims about the published book *)

Sides2 == {"bids", "asks"}

\* C14: neither book side holds a level whose quantity is zero or negative.
C14_NoEmptyLevels ==
    \A side \in Sides2 : \A i \in DOMAIN state[side] : state[side][i].quantity > 0

C16_MetricsOfSameState ==
    IF state.bids # <<>> /\ state.asks # <<>>
    THEN /\ state.spread = state.asks[1].price - state.bids[1].price
         /\ 2 * state.midPrice = state.bids[1].price + state.asks[1].price
    ELSE /\ state.spread = 0
         /\ state.midPrice = 0
         /\ state.vwap.num = 0

\* The metrics of a two-sided book, published again by a connection-status update
C16_Witness ==
    /\ state.isConnected
    /\ state.bids # <<>>
    /\ state.asks # <<>>
    /\ state.spread = 2
    /\ state.midPrice = 50001

\* C17: each level's cumulative is its quantity plus the cumulative of the level
\* before it on its side, so cumulative never decreases along a side.
C17_CumulativeIsPrefixSum ==
    \A side \in Sides2 : \A i \in DOMAIN state[side] :
        /\ state[side][i].cumulative =
              state[side][i].quantity
              + (IF i = 1 THEN 0 ELSE state[side][i - 1].cumulative)
        /\ i > 1 => state[side][i].cumulative >= state[side][i - 1].cumulative

\* Two bid levels of quantities 2 and 1 after an accepted diff
C17_Witness ==
    /\ lastDiff = "accepted"
    /\ Len(state.bids) = 2
    /\ state.bids[1].cumulative = 2
    /\ state.bids[2].cumulative = 3

\* C18: a failed snapshot load (the fetch rejects, or the response cannot be
\* parsed into levels) leaves the published state and the sequence id used for
\* diff validation unchanged, and publishes nothing.
C18_FailedLoadChangesNothing ==
    [][\A i \in 1..MaxFetches :
         (SnapshotFailed(i) \/ SnapshotMalformed(i)) =>
            /\ state' = state
            /\ lastUpdateId' = lastUpdateId
            /\ stateChanges' = 0]_vars

-----------------------------------------------------------------------------
(* Further claims about the stream connection *)

Live == {t \in Sockets : socks[t].readyState \in {"CONNECTING", "OPEN"}}

\* C19: connect() called while this.ws is connecting or open creates no
\* socket, changes no field and reports no status; and at most one socket is
\* connecting or open at any time, the one this.ws refers to.
C19_ConnectIdempotent ==
    [][/\ (Connected(Manager) /\ Connect) => Manager' = Manager
       /\ Cardinality(Live') <= 1
       /\ Live' \subseteq {ws'}]_vars

\* connect() was called on an open connection while the socket of the previous
\* connection was still closing
C19_Witness ==
    /\ lastCall.op = "connect"
    /\ ws # 0
    /\ socks[ws].readyState = "OPEN"
    /\ \E t \in Sockets : socks[t].readyState = "CLOSING"

\* C20: a reconnect is scheduled with the delay
\* min(reconnectInterval * 2^attempts, 30000 ms) for the attempt counter found
\* at scheduling; the delay is at most 30 s and not less than the delay
\* scheduled before it since the counter was last reset; a timer pending
\* since then runs with that delay.
C20_BackoffDelay ==
    scheduled.delay # 0 =>
        /\ scheduled.delay =
              Min(config.reconnectInterval * 2 ^ scheduled.attempts, 30000)
        /\ scheduled.delay <= 30000
        /\ scheduled.prev <= scheduled.delay
        /\ reconnectTimeout # 0 => reconnectTimeout = scheduled.delay

\* The sixth consecutive failure: the doubling has passed the cap
C20_Witness ==
    /\ reconnectTimeout = 30000
    /\ scheduled = [delay |-> 30000, attempts |-> 5, prev |-> 16000]

-----------------------------------------------------------------------------
(* Claims about inbound frames *)

RECURSIVE Payloads(_)
Payloads(frames) ==
    IF frames = <<>> THEN <<>>
    ELSE LET rest == Payloads(Tail(frames))
         IN  IF JSONparse(Head(frames)) = SyntaxError THEN rest
             ELSE <<JSONparse(Head(frames))>> \o rest

\* C21: onMessage has been called exactly once per well-formed frame, in
\* arrival order; a malformed frame makes no call, changes no field of the
\* manager (no status, no timer, no socket), and the frames after it are
\* delivered all the same.
C21_OneCallPerFrame ==
    [][/\ delivered' = Payloads(arrived')
       /\ \A t \in Sockets, data \in Frames :
            (HandleMessage(t, data) /\ JSONparse(data) = SyntaxError)
                => /\ delivered' = delivered
                   /\ Manager' = Manager
       /\ \A t \in Sockets, data \in Frames :
            (HandleMessage(t, data) /\ JSONparse(data) # SyntaxError)
                => delivered' = Append(delivered, JSONparse(data))]_vars

\* A truncated frame, then a diff: the diff alone was delivered
C21_Witness ==
    /\ arrived = <<"{\"u\":", "{\"u\":8}">>
    /\ delivered = <<[u |-> 8]>>
    /\ status.isConnected

-----------------------------------------------------------------------------
(* Claims about the risk figures of a validated order *)

\* C22: a valid order's pnlUp and pnlDown are the mark-to-market gain if the
\* price moves 0.5% up or down from estimatedPrice: for a buy the gain is
\* quantity * (movedPrice - estimatedPrice), for a sell it is
\* quantity * (estimatedPrice - movedPrice); a valid buy has pnlUp > 0 and
\* pnlDown < 0.  Prices are in thousandths of a dollar here.
C22_PnLScenarios ==
    (riskCall.op = "validateOrder" /\ riskCall.returned.isValid) =>
        LET order == riskCall.order
            estimatedPrice == riskCall.returned.estimatedPrice
            up == order.quantity * (estimatedPrice * 1005 - estimatedPrice * 1000)
            down == order.quantity * (estimatedPrice * 995 - estimatedPrice * 1000)
        IN  /\ riskCall.returned.pnlUp = IF order.side = "buy" THEN up ELSE -up
            /\ riskCall.returned.pnlDown = IF order.side = "buy" THEN down ELSE -down
            /\ order.side = "buy" =>
                   riskCall.returned.pnlUp > 0 /\ riskCall.returned.pnlDown < 0

-----------------------------------------------------------------------------
(* Claims about the price change of the candle history *)

\* The finalized candles since the last clear that the history still retains
Retained == slice(candleLog.finalized, Len(candleLog.finalized) - Len(candles))

TwoBuckets ==
    /\ Len(candleLog.finalized) = 1
    /\ candles = candleLog.finalized
    /\ currentCandle # null
    /\ currentCandle.timestamp # candles[1].timestamp

\* C24: after trades in two different minute buckets have been applied with
\* addTrades, getPriceChange reports change = (price of the latest trade) -
\* (open of the first candle) and changePercent = change / (first open) * 100,
\* which is not zero when the two prices differ (50000 then 50100 give 100
\* and 0.2%).
C24_ChangeAcrossTwoBuckets ==
    TwoBuckets =>
        LET change == currentCandle.close - candles[1].open
            reported == getPriceChange(candles)
        IN  /\ reported.change = change
            /\ reported.changePercent.num * candles[1].open
                   = change * 100 * reported.changePercent.den

-----------------------------------------------------------------------------
(* Claims about the portfolio figures and the writers of the balances *)

\* The portfolio's value in cents at a price in dollars, before the call
ValueAt(price) == riskCall.before.usd + riskCall.before.btc * price

\* percent is (change / value) * 100 for a value that is not 0: it is zero
\* exactly when change is, and otherwise it is the quotient as computed
IsPercentOf(percent, change, value) ==
    IF change = 0 THEN percent.num = 0 ELSE percent = Ratio(change * 100, value)

C26_OnlyExecuteOrderWrites ==
    /\ (riskCall.op # "none" /\ balances # riskCall.before) =>
           riskCall.op \in {"executeOrder", "resetBalances"}
    /\ balances.usd >= 0
    /\ balances.btc >= 0

-----------------------------------------------------------------------------
(* Claims about the finalized candles *)

CandleFields == {"timestamp", "open", "high", "low", "close", "volume"}

\* C27: a finalized candle is immutable: a call that does not clear the
\* history leaves every candle it retains as it was, field by field, and the
\* candle that was open is the first the call finalizes, with its bucket
\* start and its open price; there is at most one open candle, which is
\* either null or one candle.
C27_FinalizedImmutable ==
    [][LET finalizedNow == Len(candleLog'.finalized) - Len(candleLog.finalized)
           dropped == Len(candles) + finalizedNow - Len(candles')
       IN  /\ finalizedNow >= 0 =>
                  /\ dropped >= 0
                  /\ \A j \in 1..Len(candles) :
                         j > dropped => candles'[j - dropped] = candles[j]
           /\ (finalizedNow > 0 /\ currentCandle # null) =>
                  LET first == candleLog'.finalized[Len(candleLog.finalized) + 1]
                  IN  /\ first.timestamp = currentCandle.timestamp
                      /\ first.open = currentCandle.open
           /\ currentCandle' = null \/ DOMAIN currentCandle' = CandleFields
      ]_vars

\* Two candles are retained and a trade has just been applied to a third,
\* open one, at another price than theirs
C27_Witness ==
    /\ Len(candles) = 2
    /\ candleLog.finalized = candles
    /\ currentCandle # null
    /\ Len(candleLog.openTrades) = 2
    /\ currentCandle.close # candles[2].close
    /\ currentCandle.volume # candles[2].volume

-----------------------------------------------------------------------------
(* Claims about the order of validateOrder's rules *)

\* C28: validateOrder applies its rules in order: a non-positive quantity is
\* rejected with the quantity error even when the book is empty; otherwise a
\* book with an empty side is rejected with the no-market-data error and zero
\* estimates, whatever the order's side; otherwise estimatedPrice is the best
\* ask for a buy and the best bid for a sell and estimatedCost is quantity *
\* estimatedPrice, also when the order is rejected for insufficient balance.
C28_RuleOrder ==
    riskCall.op = "validateOrder" =>
        LET order == riskCall.order
            book == riskCall.orderBook
            result == riskCall.returned
            oneSided == book.bids = <<>> \/ book.asks = <<>>
        IN  /\ order.quantity <= 0 =>
                   /\ ~result.isValid
                   /\ result.error = "Quantity must be greater than 0"
            /\ (order.quantity > 0 /\ oneSided) =>
                   /\ ~result.isValid
                   /\ result.error = "No market data available"
                   /\ result.estimatedPrice = 0
                   /\ result.estimatedCost = 0
            /\ (order.quantity > 0 /\ ~oneSided) =>
                   /\ order.side = "buy" => result.estimatedPrice = book.asks[1].price
                   /\ order.side = "sell" => result.estimatedPrice = book.bids[1].price
                   /\ result.estimatedCost = order.quantity * result.estimatedPrice
                   /\ ~result.isValid =>
                          result.error \in {"Insufficient USD balance",
                                            "Insufficient BTC balance"}

\* A buy of 0.30 BTC at the best ask of 50001 was rejected for the cash it
\* needs, 15000.30, and the rejection carries both estimates
C28_Witness ==
    /\ riskCall.op = "validateOrder"
    /\ riskCall.order = [side |-> "buy", quantity |-> 30]
    /\ balances = DefaultBalances
    /\ riskCall.returned = Rejected("Insufficient USD balance", 50001, 1500030)

-----------------------------------------------------------------------------
(* Claims about the reconnect timer and the status callback *)

\* C29: at most one reconnect timer is pending, and it is the one
\* this.reconnectTimeout refers to; when an error event arrives while a timer
\* is pending, the handler's request to schedule a reconnect starts no timer
\* and leaves the pending timer and its delay as they were.
C29_OneReconnectTimer ==
    [][/\ timeouts' <= 1
       /\ timeouts' = 1 <=> reconnectTimeout' # 0
       /\ \A t \in Sockets, closure \in Closures :
              (reconnectTimeout # 0 /\ closure.failed /\ TransportClosed(t, closure)) =>
                  LET ended == [Manager EXCEPT !.socks[t].readyState = "CLOSED"]
                      requested == handleError(ended)
                  IN  /\ requested.timeouts = timeouts
                      /\ requested.reconnectTimeout = reconnectTimeout
                      /\ requested.scheduled = scheduled
      ]_vars

\* A connection failed while the timer of an earlier failure was pending: the
\* close handler has replaced that timer by one with the same delay
C29_Witness ==
    /\ lastCall = [op |-> "close", attempts |-> 1, pending |-> TRUE]
    /\ timeouts = 1
    /\ reconnectTimeout = 2000
    /\ scheduled = [delay |-> 2000, attempts |-> 1, prev |-> 2000]
    /\ status.isReconnecting

\* C30: every change of the connection status, the increment of
\* reconnectAttempts when a reconnect timer fires included, is pushed to the
\* status-change callback: the last status the callback was given is the
\* manager's current status.
C30_CallbackHasCurrentStatus == notified = status

-----------------------------------------------------------------------------
(* Claims about terminal closes and reconnection *)

\* C31: a clean close (code 1000) or a close with the attempt ceiling reached
\* is terminal: the status reported for it is not connected and not
\* reconnecting, no reconnect timer is pending, and unless the next call is
\* connect() the next step arms no reconnect timer and opens no transport.
C31_TerminalCloseIsFinal ==
    [][(lastCall.op = "close" /\ ~status.isReconnecting) =>
           /\ ~status.isConnected
           /\ notified = status
           /\ reconnectTimeout = 0
           /\ timeouts = 0
           /\ lastCall'.op # "connect" =>
                  /\ reconnectTimeout' = 0
                  /\ \A t \in Sockets :
                         socks'[t].readyState = "CONNECTING" =>
                             socks[t].readyState = "CONNECTING"
      ]_vars

\* The close event just handled was abnormal and found the attempt counter
\* below the ceiling, and the caller's last call was not disconnect()
AbnormalClose ==
    /\ lastCall.op = "close"
    /\ status.isReconnecting
    /\ status.reconnectAttempts < config.maxReconnectAttempts
    /\ ~userDisconnected

\* C32: when timers fire, an abnormal close or error event handled with the
\* attempt counter below maxReconnectAttempts is followed by a transport that
\* is connecting or open, unless disconnect() is called first; a close event
\* right after an error event leaves a reconnect timer pending.
C32_AbnormalCloseReconnects ==
    /\ [](AbnormalClose => reconnectTimeout # 0)
    /\ AbnormalClose ~> (Connected(Manager) \/ userDisconnected)

-----------------------------------------------------------------------------
(* Claims about the order of the candles *)

\* C33: a trade for a bucket earlier than the open candle's bucket is neither
\* dropped nor merged: the open candle is finalized as it is and a new open
\* candle is started for the late trade's own bucket, holding that trade
\* alone.
C33_LateTradeOpensItsBucket ==
    [][\A trade \in Trades :
         (/\ currentCandle # null
          /\ getMinuteStart(trade.timestamp) < currentCandle.timestamp
          /\ AddTrade(trade)) =>
             /\ candleLog'.finalized = Append(candleLog.finalized, currentCandle)
             /\ currentCandle'.timestamp = getMinuteStart(trade.timestamp)
             /\ currentCandle'.open = trade.price
             /\ currentCandle'.close = trade.price
             /\ currentCandle'.volume = trade.quantity
             /\ candleLog'.openTrades = <<trade>>
             /\ published' = Append(candles', currentCandle')
      ]_vars

\* The published sequence has the bucket of minute 0 twice, once before and
\* once after the bucket of minute 1
C33_Witness ==
    /\ Len(published) = 3
    /\ published[1].timestamp = 0
    /\ published[2].timestamp = 60000
    /\ published[3].timestamp = 0
    /\ published[3] = currentCandle
    /\ candleLog.openTrades = <<[timestamp |-> 5000, price |-> 49900, quantity |-> 5]>>

-----------------------------------------------------------------------------
(* Claims about the executed-order log *)

\* C34: the executed-order log records exactly the accepted executions:
\* every accepted execution among the 500 most recent is in the log once,
\* newest first, and a rejected execution adds nothing, also when two
\* requests are made before the component has rendered again.
C34_LogHoldsAcceptedFills == orders = sliceTo(fills, OrdersCap)

-----------------------------------------------------------------------------
(* Claims about the current price *)

\* C35: getCurrentPrice returns the price of the trade applied last since
\* construction or the last clear(), whether its candle is still open or has
\* been finalized, and 0 when no trade has been applied.
C35_CurrentPriceIsLastTrade ==
    /\ getCurrentPrice = candleLog.lastPrice
    /\ (candleLog.openTrades = <<>> /\ candleLog.finalized = <<>>) => getCurrentPrice = 0

\* The candle of the last trade, at 50100, has been finalized and none is open
C35_Witness ==
    /\ currentCandle = null
    /\ Len(candles) = 2
    /\ candles[1].close = 50000
    /\ candles[2].close = 50100
    /\ candleLog.lastPrice = 50100
    /\ getCurrentPrice = 50100

-----------------------------------------------------------------------------
(* Claims about the portfolio change from a zero price *)

\* C36: with the starting balances of 10000.00 in cash and 0.25 BTC,
\* getPortfolioChange called with initialPrice = 0 returns changePercent = 0
\* for any current price.
C36_ZeroInitialPrice ==
    (/\ riskCall.op = "getPortfolioChange"
     /\ riskCall.before = DefaultBalances
     /\ riskCall.initialPrice = 0) => riskCall.returned.changePercent.num = 0

-----------------------------------------------------------------------------
(* Claims about validation and execution together *)

-----------------------------------------------------------------------------
(* Claims about the reported status *)

\* C38: after every handler or call, isConnected and isReconnecting are not
\* both true, and when isReconnecting is true a reconnect timer is pending or
\* the transport this.ws refers to is connecting.
C38_StatusConsistent ==
    /\ ~(status.isConnected /\ status.isReconnecting)
    /\ status.isReconnecting =>
           \/ reconnectTimeout # 0
           \/ ws # 0 /\ socks[ws].readyState = "CONNECTING"

\* The reconnect timer has fired after the second failure: no timer is
\* pending, the new transport is connecting and the status still says
\* reconnecting
C38_Witness ==
    /\ lastCall.op = "timer"
    /\ status.isReconnecting
    /\ ~status.isConnected
    /\ status.reconnectAttempts = 2
    /\ reconnectTimeout = 0
    /\ ws # 0
    /\ socks[ws].readyState = "CONNECTING"

-----------------------------------------------------------------------------
(* Claims about superseded transports *)

\* C39: the close or error event of a transport that has been replaced leaves
\* the current transport as it is, does not cancel the current heartbeat
\* timer and does not change the status reported for the current connection.
C39_SupersededEventsHarmless ==
    [][\A t \in Sockets, closure \in Closures :
           (ws # 0 /\ t # ws /\ TransportClosed(t, closure)) =>
               /\ ws' = ws
               /\ socks'[ws].readyState = socks[ws].readyState
               /\ heartbeatInterval' = heartbeatInterval
               /\ status' = status
               /\ notified' = notified
      ]_vars

-----------------------------------------------------------------------------
(* Claims about candles built from an ordered feed *)

\* C40: when trades arrive only through addTrade and addTrades, in
\* non-decreasing timestamp order, the published bucket starts are strictly
\* increasing, each bucket start is the timestamp of its trades truncated to
\* the minute, and every published candle has low <= open <= high and
\* low <= close <= high.
C40_OrderedFeedCandles ==
    /\ \A i \in 1..(Len(published) - 1) :
           published[i].timestamp < published[i + 1].timestamp
    /\ \A i \in 1..Len(published) :
           /\ published[i].timestamp % MinuteMs = 0
           /\ published[i].low <= published[i].open
           /\ published[i].open <= published[i].high
           /\ published[i].low <= published[i].close
           /\ published[i].close <= published[i].high
    /\ currentCandle # null =>
           /\ published[Len(published)] = currentCandle
           /\ \A i \in 1..Len(candleLog.openTrades) :
                  LET t == candleLog.openTrades[i].timestamp
                  IN  /\ currentCandle.timestamp <= t
                      /\ t < currentCandle.timestamp + MinuteMs
    /\ \A i \in 1..Len(candleLog.finalized) :
           candleLog.finalized[i] \in Range(published)

\* Three trades of the first minute, at 50000, 49900 and 50100, then a trade
\* of the second minute: two candles, the first with low < open < high
C40_Witness ==
    /\ Len(published) = 2
    /\ published[1].timestamp = 0
    /\ published[1].low < published[1].open
    /\ published[1].open < published[1].high
    /\ published[2].timestamp = MinuteMs
    /\ published[2] = currentCandle
    /\ candleLog.ops = 4

-----------------------------------------------------------------------------
(* Specifications *)

Init == InitBook /\ InitWS /\ InitRisk /\ InitCandles /\ InitFrames /\ InitOrders

NextBook == BookStep

SpecBook == Init /\ [][NextBook]_vars

\* The same with a snapshot endpoint that may also answer with a body whose
\* levels cannot be parsed
NextBookAnyResponse ==
    \/ BookStep
    \/ \E i \in 1..MaxFetches : SnapshotMalformed(i)

SpecBookAnyResponse == Init /\ [][NextBookAnyResponse]_vars

NextResync == ResyncStep

\* The stream keeps delivering and every fetch in flight is answered
SpecResync ==
    /\ Init
    /\ [][NextResync]_vars
    /\ WF_vars(\E body \in DiffBodies : FeedDelivers(body))
    /\ WF_vars(\E body \in SnapshotBodies : FetchSucceeds(body))

NextWS == WSStep

NextFrames == FrameStep

\* The connection with the frames its sockets receive
SpecFrames == Init /\ [][NextFrames]_vars


SpecWS == Init /\ [][NextWS]_vars

\* A pending reconnect timer fires
SpecWSTimers == Init /\ [][NextWS]_vars /\ WF_vars(ReconnectTimerFires)

NextRisk == RiskStep

\* A risk manager constructed with any of the initial balances
InitAnyBalances ==
    InitBook /\ InitWS /\ InitRiskAny /\ InitCandles /\ InitFrames /\ InitOrders

SpecRisk == InitAnyBalances /\ [][NextRisk]_vars

NextRiskApi == RiskApiStep

SpecRiskApi == Init /\ [][NextRiskApi]_vars

NextCandles == CandleStep

SpecCandles == Init /\ [][NextCandles]_vars

\* An aggregator driven by addTrade and addTrades alone, in timestamp order
NextCandlesInOrder ==
    \/ \E trade \in Trades : AddTradeInOrder(trade)
    \/ \E trades \in TradeBatches : AddTradesInOrder(trades)

SpecCandlesInOrder == Init /\ [][NextCandlesInOrder]_vars

NextOrders ==
    \/ \E order \in Orders, estimatedPrice \in Prices :
           UseBalancesExecuteOrder(order, estimatedPrice)
    \/ Render

SpecOrders == Init /\ [][NextOrders]_vars

====
